---- MODULE Spec2Model ----
(***************************************************************************)
(* Model of the mock weight oracle daemon,                                 *)
(* node/weightoracle/testdaemon/daemon.py (class WeightDaemon).            *)
(*                                                                         *)
(* Strings that the code inspects character by character (addresses,       *)
(* selection ids, rounds, composite keys, decimal strings) are sequences   *)
(* of code points.  A JSON object field is <<>> when the key is absent     *)
(* (dict.get returns None) and <<s>> when it is present with string s.     *)
(*                                                                         *)
(* Spec: request handling with concurrent setter calls.  SpecTables: the   *)
(* setters called with several triples.  SpecLife: start() and stop()      *)
(* statement by statement; FairLife adds the scheduling of their threads.  *)
(***************************************************************************)
EXTENDS Integers, Sequences, FiniteSets, TLC

(* ---------------------------- bounds ----------------------------------- *)
\* number of client connections that may be accepted
MaxConns == 2

(* ----------------------- program constants ----------------------------- *)
Modulus == 1000000
DefaultTotalWeight == 1000000
Colon == 58
Zero == 48
Minus == 45

Conns == 1..MaxConns

(* ------------------------- strings ------------------------------------- *)
A1 == <<65, 49>>
\* a one-character address whose code point exceeds the modulus
Top == <<1114111>>
Empty == <<>>
SelX == <<120>>
SelY == <<121>>
Round5 == <<53>>
\* "x:y", "z", "1" and "x", "y:z": two triples with ':' inside a field
AddrXY == <<120, Colon, 121>>
SelZ == <<122>>
Round1 == <<49>>
AddrX == <<120>>
SelYZ == <<121, Colon, 122>>

\* str(n) for a Python int: the decimal digits, most significant first
RECURSIVE Digits(_)
Digits(n) == IF n < 10 THEN <<Zero + n>>
             ELSE Append(Digits(n \div 10), Zero + (n % 10))

Str(n) == IF n < 0 THEN <<Minus>> \o Digits(0 - n) ELSE Digits(n)

\* sum(ord(c) for c in address)
RECURSIVE SumOrd(_)
SumOrd(s) == IF s = <<>> THEN 0 ELSE s[1] + SumOrd(Tail(s))

\* f"{address}:{selection_id}:{balance_round}"
CompositeKey(address, selection_id, balance_round) ==
    address \o <<Colon>> \o selection_id \o <<Colon>> \o balance_round

\* the fallback without the reduction modulo 1000000
FallbackWeightNoMod(address) == SumOrd(address)

\* sum(ord(c) for c in address) % 1000000
FallbackWeight(address) == SumOrd(address) % Modulus

(* ------------------------- JSON values --------------------------------- *)
\* `not x` for a value read with dict.get: None (absent key) or ""
Falsy(v) == v = <<>> \/ v[1] = <<>>

\* what the accumulated buffer is: bytes that are not UTF-8, text that is not
\* JSON, a JSON value that is not an object, or a JSON object with its fields
Payload(kind, type, address, selection_id, balance_round, vote_round) ==
    [kind |-> kind, type |-> type, address |-> address,
     selection_id |-> selection_id, balance_round |-> balance_round,
     vote_round |-> vote_round]

NoPayload == Payload("none", <<>>, <<>>, <<>>, <<>>, <<>>)
BadUtf8 == Payload("bad_utf8", <<>>, <<>>, <<>>, <<>>, <<>>)
BadJson == Payload("bad_json", <<>>, <<>>, <<>>, <<>>, <<>>)
NonObject == Payload("non_object", <<>>, <<>>, <<>>, <<>>, <<>>)
Obj(type) == Payload("object", type, <<>>, <<>>, <<>>, <<>>)
W(a, s, b) == Payload("object", <<"weight">>, a, s, b, <<>>)
T(b, v) == Payload("object", <<"total_weight">>, <<>>, <<>>, b, v)

PlainRequests == {Obj(<<>>), Obj(<<"ping">>), Obj(<<"identity">>), Obj(<<"bogus">>)}

BadWeightRequests ==
    {W(<<>>, <<>>, <<>>), W(<<Empty>>, <<SelX>>, <<Round5>>),
     W(<<A1>>, <<>>, <<>>), W(<<A1>>, <<Empty>>, <<Round5>>),
     W(<<Top>>, <<Empty>>, <<Round5>>),
     W(<<A1>>, <<SelX>>, <<>>), W(<<Top>>, <<SelX>>, <<Empty>>)}

GoodWeightRequests ==
    {W(<<a>>, <<s>>, <<Round5>>) : a \in {A1, Top}, s \in {SelX, SelY}}

TotalWeightRequests ==
    {T(<<>>, <<>>), T(<<Empty>>, <<Round5>>), T(<<Round5>>, <<>>),
     T(<<Round5>>, <<Empty>>), T(<<Round5>>, <<Round5>>)}

Objects == PlainRequests \cup BadWeightRequests \cup GoodWeightRequests
              \cup TotalWeightRequests

Payloads == {BadUtf8, BadJson, NonObject} \cup Objects

\* requests that reach the shared state
LookupPayloads == {W(<<Top>>, <<SelY>>, <<Round5>>), T(<<Round5>>, <<Round5>>)}

\* one request of every path through the handler
PathPayloads ==
    {BadUtf8, NonObject, Obj(<<"ping">>), W(<<Top>>, <<SelY>>, <<Round5>>),
     T(<<Round5>>, <<Round5>>)}

\* one request of every type, and the weight requests the setters' calls are
\* about
TablePayloads ==
    {BadJson, Obj(<<"ping">>), Obj(<<"identity">>), Obj(<<"bogus">>),
     W(<<Top>>, <<SelY>>, <<Round5>>), W(<<A1>>, <<SelX>>, <<Round5>>),
     W(<<AddrX>>, <<SelYZ>>, <<Round1>>), T(<<Round5>>, <<Round5>>)}

(* --------------------------- responses --------------------------------- *)
Pong == [pong |-> TRUE]
IdentityResp == [genesis_hash |-> "b64encode(genesis_hash)",
                 protocol_version |-> "protocol_version",
                 algorithm_version |-> "algorithm_version"]
WeightResp(w) == [weight |-> Str(w)]
TotalWeightResp(w) == [total_weight |-> Str(w)]
ErrorResp(msg, code) == [error |-> msg, code |-> code]

(* ------------------------- configurations ------------------------------ *)
NoTable == [k \in {} |-> 0]
AddressTable == [a \in {A1} |-> 1000000]
KeyTable ==
    LET k1 == CompositeKey(A1, SelX, Round5)
        k2 == CompositeKey(Top, Empty, Round5)
        k3 == CompositeKey(Top, SelY, Round5)
    IN  [k \in {k1, k2, k3} |-> IF k = k1 THEN 3 ELSE IF k = k2 THEN 4 ELSE 6]

\* constructor arguments: default_weight (<<>> is None), address_weights,
\* weight_table, latency
Configs ==
    {[default_weight |-> <<>>, address_weights |-> AddressTable,
      weight_table |-> KeyTable, latency |-> 0],
     [default_weight |-> <<0>>, address_weights |-> AddressTable,
      weight_table |-> KeyTable, latency |-> 1],
     [default_weight |-> <<250>>, address_weights |-> NoTable,
      weight_table |-> NoTable, latency |-> 0],
     [default_weight |-> <<>>, address_weights |-> NoTable,
      weight_table |-> NoTable, latency |-> 1]}

(* ----------------------------- state ----------------------------------- *)
\* running, server_socket, a_pc: the acceptor's flag, its listening socket and
\*   its position in start()
\* default_weight, address_weights, latency: constructor arguments nothing
\*   assigns afterwards
\* weight_table, total_weight: the state the setters assign; lock: the thread
\*   holding self._lock, or Free
\* per connection c: pc[c] the handler's position; data[c] the buffer ("empty",
\*   "plain": bytes without '}', "brace": bytes with '}'); request[c] what the
\*   buffer decodes to; response[c] the response formed (<<>> or <<r>>);
\*   weight[c] the local of the lookup; out[c] the number of responses
\*   written to the socket; closed[c] whether the socket is closed
\*   slept[c] whether the handler has slept for the injected latency
\* call_pc, call_op: the setter call in progress
\* stop_pc: the position of the thread calling stop(); reported: whether the
\*   accept loop has printed "Error accepting connection", and whether it did
\*   so with stop() already returned
\* scenario: what drives the daemon in this run, i.e. what the clients send
\*   and what the embedding harness calls
\* last_set: history of the setters, the value of the most recent completed
\*   set_weight per triple and of the most recent set_total_weight
\* window[c]: history of request c, the values its table entry (<<>> when
\*   absent) or total_weight has held since the request was decoded and until
\*   the handler read it
VARIABLES
    running, server_socket, a_pc, stop_pc, reported,
    default_weight, address_weights, latency, scenario,
    weight_table, total_weight, lock,
    pc, data, request, response, weight, out, closed, slept,
    call_pc, call_op,
    window, last_set

cfgvars == <<default_weight, address_weights, latency, scenario>>
accvars == <<running, server_socket, a_pc, stop_pc, reported>>
connvars == <<pc, data, request, response, weight, out, closed, slept>>
callvars == <<call_pc, call_op>>
vars == <<running, server_socket, a_pc, stop_pc, reported,
          default_weight, address_weights, latency, scenario,
          weight_table, total_weight, lock,
          pc, data, request, response, weight, out, closed, slept,
          call_pc, call_op, window, last_set>>

(* --------------------------- environment ------------------------------- *)
\* what the client of connection c may send.  In the "requests" runs the
\* first client sends anything, in any number of chunks, and the clients
\* connecting after it one of the lookups, in one chunk: handlers meet only at
\* the lock and the tables, so it is the lookups that matter for what one
\* connection can do to another; the clients after the second send the
\* lookup that takes the lock.  In the "lifecycle" runs the first client
\* sends one request of every path and the others a ping; in the "tables"
\* runs the first client sends the requests the setters' calls are about and
\* the others connect and leave
ClientPayloads(c) ==
    IF scenario = "requests"
    THEN (IF c = 1 THEN Payloads
          ELSE IF c = 2 THEN LookupPayloads
          ELSE {W(<<Top>>, <<SelY>>, <<Round5>>)})
    ELSE IF scenario = "lifecycle"
         THEN (IF c = 1 THEN PathPayloads ELSE {Obj(<<"ping">>)})
    ELSE TablePayloads
ClientChunks(c) ==
    IF c = 1 THEN {"eof", "plain", "brace", "error"}
    ELSE IF scenario = "tables" THEN {"eof"}
    ELSE {"eof", "brace", "error"}

\* arguments of the harness's set_weight calls
SetWeightArgs ==
    IF scenario = "tables"
    THEN {<<Top, SelY, Round5, 7>>, <<AddrXY, SelZ, Round1, 11>>,
          <<AddrX, SelYZ, Round1, 12>>}
    ELSE {<<Top, SelY, Round5, 7>>}
\* arguments of the harness's set_total_weight calls
SetTotalArgs == {42}

Free == <<>>
ConnThread(c) == <<"conn", c>>
Harness == <<"harness", 0>>
NoOp == [op |-> "none", args |-> <<>>, key |-> <<>>, value |-> 0]
NoneSet == [weight |-> [t \in {} |-> 0], total |-> <<>>]

\* the entry of a table under a key: <<>> when absent, <<v>> when present
Entry(table, key) == IF key \in DOMAIN table THEN <<table[key]>> ELSE <<>>

\* the daemon after __init__, driven by scenario s
Constructed(s) ==
    /\ \E cfg \in Configs :
          /\ default_weight = cfg.default_weight
          /\ address_weights = cfg.address_weights
          /\ weight_table = cfg.weight_table
          /\ latency = cfg.latency
    /\ scenario = s
    /\ total_weight = DefaultTotalWeight
    /\ running = FALSE
    /\ server_socket = "none"
    /\ a_pc = "new"
    /\ stop_pc = "idle"
    /\ reported = "no"
    /\ lock = Free
    /\ pc = [c \in Conns |-> "idle"]
    /\ data = [c \in Conns |-> "empty"]
    /\ request = [c \in Conns |-> NoPayload]
    /\ response = [c \in Conns |-> <<>>]
    /\ weight = [c \in Conns |-> 0]
    /\ out = [c \in Conns |-> 0]
    /\ closed = [c \in Conns |-> FALSE]
    /\ slept = [c \in Conns |-> FALSE]
    /\ call_pc = "idle"
    /\ call_op = NoOp
    /\ window = [c \in Conns |-> {}]
    /\ last_set = NoneSet

Init == Constructed("requests")

(* ------------------- request handling (pure parts) --------------------- *)
\* request.get("type", "")
ReqType(req) == IF req.type = <<>> THEN "" ELSE req.type[1]

\* the override tested by truth value (`if self.default_weight:`), so that an
\* override of 0 is skipped
WeightEarlyTruthy(req) ==
    IF Falsy(req.address)
    THEN <<ErrorResp("Missing address field", "bad_request")>>
    ELSE IF Falsy(req.selection_id)
    THEN <<ErrorResp("Missing selection_id field", "bad_request")>>
    ELSE IF Falsy(req.balance_round)
    THEN <<ErrorResp("Missing balance_round field", "bad_request")>>
    ELSE IF default_weight # <<>> /\ default_weight[1] # 0
    THEN <<WeightResp(default_weight[1])>>
    ELSE <<>>

\* the fields validated in the order selection_id, address, balance_round
WeightEarlySelectionFirst(req) ==
    IF Falsy(req.selection_id)
    THEN <<ErrorResp("Missing selection_id field", "bad_request")>>
    ELSE IF Falsy(req.address)
    THEN <<ErrorResp("Missing address field", "bad_request")>>
    ELSE IF Falsy(req.balance_round)
    THEN <<ErrorResp("Missing balance_round field", "bad_request")>>
    ELSE IF default_weight # <<>>
    THEN <<WeightResp(default_weight[1])>>
    ELSE <<>>

\* _handle_weight up to the lock: validation of the three fields, then the
\* default_weight override; <<>> when the lookup under the lock is needed
WeightEarly(req) ==
    IF Falsy(req.address)
    THEN <<ErrorResp("Missing address field", "bad_request")>>
    ELSE IF Falsy(req.selection_id)
    THEN <<ErrorResp("Missing selection_id field", "bad_request")>>
    ELSE IF Falsy(req.balance_round)
    THEN <<ErrorResp("Missing balance_round field", "bad_request")>>
    ELSE IF default_weight # <<>>
    THEN <<WeightResp(default_weight[1])>>
    ELSE <<>>

\* _handle_total_weight up to the read of total_weight
TotalWeightEarly(req) ==
    IF Falsy(req.balance_round)
    THEN <<ErrorResp("Missing balance_round field", "bad_request")>>
    ELSE IF Falsy(req.vote_round)
    THEN <<ErrorResp("Missing vote_round field", "bad_request")>>
    ELSE <<>>

\* _handle_request without its "identity" branch
HandleRequestNoIdentity(req) ==
    LET t == ReqType(req) IN
    IF t = "ping" THEN [resp |-> <<Pong>>, next |-> "send"]
    ELSE IF t = "weight"
    THEN [resp |-> WeightEarly(req),
          next |-> IF WeightEarly(req) = <<>> THEN "w_lock" ELSE "send"]
    ELSE IF t = "total_weight"
    THEN [resp |-> TotalWeightEarly(req),
          next |-> IF TotalWeightEarly(req) = <<>> THEN "tw_read" ELSE "send"]
    ELSE [resp |-> <<ErrorResp("Unknown request type: " \o t, "unsupported")>>,
          next |-> "send"]

\* _handle_request: the response when it is formed without touching the
\* shared state, and the place the handler continues at
HandleRequest(req) ==
    LET t == ReqType(req) IN
    IF t = "ping" THEN [resp |-> <<Pong>>, next |-> "send"]
    ELSE IF t = "identity" THEN [resp |-> <<IdentityResp>>, next |-> "send"]
    ELSE IF t = "weight"
    THEN [resp |-> WeightEarly(req),
          next |-> IF WeightEarly(req) = <<>> THEN "w_lock" ELSE "send"]
    ELSE IF t = "total_weight"
    THEN [resp |-> TotalWeightEarly(req),
          next |-> IF TotalWeightEarly(req) = <<>> THEN "tw_read" ELSE "send"]
    ELSE [resp |-> <<ErrorResp("Unknown request type: " \o t, "unsupported")>>,
          next |-> "send"]

\* json.loads(data.decode("utf-8")) and what _handle_client does with it:
\* JSONDecodeError is answered, any other exception reaches the outer handler
Decode(p) ==
    IF p.kind = "bad_json"
    THEN [resp |-> <<ErrorResp("Invalid JSON", "bad_request")>>, next |-> "send"]
    ELSE IF p.kind = "bad_utf8" THEN [resp |-> <<>>, next |-> "close"]
    ELSE IF p.kind = "non_object" THEN [resp |-> <<>>, next |-> "close"]
    ELSE HandleRequest(p)

\* the lookup key built as address:balance_round:selection_id
KeyOfSwapped(req) ==
    CompositeKey(req.address[1], req.balance_round[1], req.selection_id[1])

\* key = f"{address}:{selection_id}:{balance_round}" of the lookup
KeyOf(req) == CompositeKey(req.address[1], req.selection_id[1], req.balance_round[1])

\* the table entry a weight request names, when it carries all three fields
HasTriple(req) ==
    /\ req.kind = "object" /\ req.type = <<"weight">>
    /\ req.address # <<>> /\ req.selection_id # <<>> /\ req.balance_round # <<>>
TripleKey(req) ==
    req.address[1] \o <<Colon>> \o req.selection_id[1] \o <<Colon>> \o req.balance_round[1]

\* a JSON object ends with '}', so a buffer without one holds no object
Fits(p, d) == p.kind = "object" => d = "brace"

(* ----------------------------- acceptor -------------------------------- *)
\* start(): socket, bind, listen, running = True
Start ==
    /\ a_pc = "new"
    /\ server_socket' = "listening"
    /\ running' = TRUE
    /\ a_pc' = "loop"
    /\ UNCHANGED <<stop_pc, reported, cfgvars, weight_table, total_weight, last_set, lock, connvars, callvars, window>>

\* one iteration of the accept loop that accepts connection c and starts its
\* handler thread
Accept(c) ==
    /\ a_pc = "loop" /\ running /\ server_socket = "listening"
    /\ pc[c] = "idle"
    /\ \A d \in Conns : d < c => pc[d] # "idle"
    /\ pc' = [pc EXCEPT ![c] = "sleep"]
    /\ UNCHANGED <<accvars, cfgvars, weight_table, total_weight, last_set, lock, data, request,
                   response, weight, out, closed, slept, callvars, window>>

(* ------------------------- connection handler -------------------------- *)
\* if self.latency > 0: time.sleep(self.latency); the step takes no time
\* when latency is 0
Sleep(c) ==
    /\ pc[c] = "sleep"
    /\ slept' = [slept EXCEPT ![c] = latency > 0]
    /\ pc' = [pc EXCEPT ![c] = "recv"]
    /\ UNCHANGED <<accvars, cfgvars, weight_table, total_weight, last_set, lock, data, request,
                   response, weight, out, closed, callvars, window>>

\* a single recv instead of the read loop: whatever arrives first is taken
\* for the whole request
RecvOnce(c) ==
    /\ pc[c] = "recv"
    /\ \E chunk \in ClientChunks(c) :
          /\ data' = [data EXCEPT ![c] =
                         IF chunk = "brace" THEN "brace"
                         ELSE IF chunk = "plain" THEN "plain" ELSE @]
          /\ pc' = [pc EXCEPT ![c] =
                       IF chunk = "error" THEN "close"
                       ELSE IF chunk = "eof" /\ data[c] = "empty" THEN "close"
                       ELSE "process"]
    /\ UNCHANGED <<accvars, cfgvars, weight_table, total_weight, last_set, lock, request,
                   response, weight, out, closed, slept, callvars, window>>

\* one client_socket.recv(4096) of the read loop: b"" (peer closed), a chunk
\* without '}', a chunk with '}', or an error
Recv(c) ==
    /\ pc[c] = "recv"
    /\ \E chunk \in ClientChunks(c) :
          /\ data' = [data EXCEPT ![c] =
                         IF chunk = "brace" THEN "brace"
                         ELSE IF chunk = "plain" THEN "plain" ELSE @]
          /\ pc' = [pc EXCEPT ![c] =
                       IF chunk = "error" THEN "close"
                       ELSE IF chunk = "plain" THEN "recv"
                       ELSE IF chunk = "eof" /\ data[c] = "empty" THEN "close"
                       ELSE "process"]
    /\ UNCHANGED <<accvars, cfgvars, weight_table, total_weight, last_set, lock, request,
                   response, weight, out, closed, slept, callvars, window>>

\* decode the buffer and run _handle_request up to its first access to the
\* shared state
Process(c) ==
    /\ pc[c] = "process"
    /\ \E p \in ClientPayloads(c) :
          /\ Fits(p, data[c])
          /\ request' = [request EXCEPT ![c] = p]
          /\ response' = [response EXCEPT ![c] = Decode(p).resp]
          /\ pc' = [pc EXCEPT ![c] = Decode(p).next]
          /\ window' = [window EXCEPT ![c] =
                           IF HasTriple(p) THEN {Entry(weight_table, TripleKey(p))}
                           ELSE IF Decode(p).next = "tw_read" THEN {<<total_weight>>}
                           ELSE @]
    /\ UNCHANGED <<accvars, cfgvars, weight_table, total_weight, last_set, lock, data,
                   weight, out, closed, slept, callvars>>

\* a read that returns the constructor's value instead of the current one
ReadTotalWeightStale == DefaultTotalWeight

\* the read of self.total_weight
ReadTotalWeight == total_weight

\* return {"total_weight": str(self.total_weight)}
TotalWeightRead(c) ==
    /\ pc[c] = "tw_read"
    /\ response' = [response EXCEPT ![c] = <<TotalWeightResp(ReadTotalWeight)>>]
    /\ pc' = [pc EXCEPT ![c] = "send"]
    /\ UNCHANGED <<accvars, cfgvars, weight_table, total_weight, last_set, lock, data, request,
                   weight, out, closed, slept, callvars, window>>

\* with self._lock: (entry)
WeightLock(c) ==
    /\ pc[c] = "w_lock"
    /\ lock = Free
    /\ lock' = ConnThread(c)
    /\ pc' = [pc EXCEPT ![c] = "w_addr"]
    /\ UNCHANGED <<accvars, cfgvars, weight_table, total_weight, last_set, data, request,
                   response, weight, out, closed, slept, callvars, window>>

\* the address table consulted only when the composite key is not in
\* weight_table
AddressHitAfterTable(req) ==
    /\ req.address[1] \in DOMAIN address_weights
    /\ KeyOf(req) \notin DOMAIN weight_table

\* address in self.address_weights
AddressHit(req) == req.address[1] \in DOMAIN address_weights

\* the lock taken by acquire() and released only at the end of the lookup:
\* the return from the address-table hit leaves it held
WeightAddressKeepsLock(c) ==
    /\ pc[c] = "w_addr"
    /\ LET a == request[c].address[1] IN
       IF AddressHit(request[c])
       THEN /\ response' = [response EXCEPT ![c] = <<WeightResp(address_weights[a])>>]
            /\ pc' = [pc EXCEPT ![c] = "send"]
            /\ UNCHANGED lock
       ELSE /\ pc' = [pc EXCEPT ![c] = "w_table"]
            /\ UNCHANGED <<response, lock>>
    /\ UNCHANGED <<accvars, cfgvars, weight_table, total_weight, last_set, data, request,
                   weight, out, closed, slept, callvars, window>>

\* if address in self.address_weights: return ... (leaving the with block)
WeightAddress(c) ==
    /\ pc[c] = "w_addr"
    /\ LET a == request[c].address[1] IN
       IF AddressHit(request[c])
       THEN /\ response' = [response EXCEPT ![c] = <<WeightResp(address_weights[a])>>]
            /\ lock' = Free
            /\ pc' = [pc EXCEPT ![c] = "send"]
       ELSE /\ pc' = [pc EXCEPT ![c] = "w_table"]
            /\ UNCHANGED <<response, lock>>
    /\ UNCHANGED <<accvars, cfgvars, weight_table, total_weight, last_set, data, request,
                   weight, out, closed, slept, callvars, window>>

\* the weight of the composite-key lookup, or the fallback
LookupWeight(req) ==
    IF KeyOf(req) \in DOMAIN weight_table
    THEN weight_table[KeyOf(req)]
    ELSE FallbackWeight(req.address[1])

\* _handle_weight as a whole for the request with fields a, s, b: what it
\* returns from the tables as they are
WeightAnswer(a, s, b) ==
    LET req == W(<<a>>, <<s>>, <<b>>) IN
    IF WeightEarly(req) # <<>> THEN WeightEarly(req)[1]
    ELSE IF AddressHit(req) THEN WeightResp(address_weights[a])
    ELSE WeightResp(LookupWeight(req))

\* key = ...; if key in self.weight_table: ... else: ...
WeightTable(c) ==
    /\ pc[c] = "w_table"
    /\ weight' = [weight EXCEPT ![c] = LookupWeight(request[c])]
    /\ pc' = [pc EXCEPT ![c] = "w_unlock"]
    /\ UNCHANGED <<accvars, cfgvars, weight_table, total_weight, last_set, lock, data, request,
                   response, out, closed, slept, callvars, window>>

\* leaving the with block; return {"weight": str(weight)}
WeightUnlock(c) ==
    /\ pc[c] = "w_unlock"
    /\ lock' = Free
    /\ response' = [response EXCEPT ![c] = <<WeightResp(weight[c])>>]
    /\ pc' = [pc EXCEPT ![c] = "send"]
    /\ UNCHANGED <<accvars, cfgvars, weight_table, total_weight, last_set, data, request,
                   weight, out, closed, slept, callvars, window>>

\* a handler that serves the connection like a session: after a response
\* written it reads the next request
SendThenReadOn(c) ==
    /\ pc[c] = "send"
    /\ \E ok \in BOOLEAN :
          /\ out' = [out EXCEPT ![c] = IF ok THEN @ + 1 ELSE @]
          /\ pc' = [pc EXCEPT ![c] = IF ok THEN "recv" ELSE "close"]
    /\ UNCHANGED <<accvars, cfgvars, weight_table, total_weight, last_set, lock, data, request,
                   response, weight, closed, slept, callvars, window>>

\* _send_response: sendall writes the response and a newline, or fails and
\* the failure is logged
Send(c) ==
    /\ pc[c] = "send"
    /\ \E ok \in BOOLEAN :
          out' = [out EXCEPT ![c] = IF ok THEN @ + 1 ELSE @]
    /\ pc' = [pc EXCEPT ![c] = "close"]
    /\ UNCHANGED <<accvars, cfgvars, weight_table, total_weight, last_set, lock, data, request,
                   response, weight, closed, slept, callvars, window>>

\* the close at the end of the try block instead of in a finally clause: the
\* paths that leave early or by an exception end the thread without it
CloseAtEndOfTry(c) ==
    /\ pc[c] = "close"
    /\ closed' = [closed EXCEPT ![c] = response[c] # <<>>]
    /\ pc' = [pc EXCEPT ![c] = "done"]
    /\ data' = [data EXCEPT ![c] = "empty"]
    /\ request' = [request EXCEPT ![c] = NoPayload]
    /\ response' = [response EXCEPT ![c] = <<>>]
    /\ weight' = [weight EXCEPT ![c] = 0]
    /\ window' = [window EXCEPT ![c] = {}]
    /\ UNCHANGED <<accvars, cfgvars, weight_table, total_weight, last_set, lock, out, slept,
                   callvars>>

\* finally: client_socket.close(); the handler thread ends
Close(c) ==
    /\ pc[c] = "close"
    /\ closed' = [closed EXCEPT ![c] = TRUE]
    /\ pc' = [pc EXCEPT ![c] = "done"]
    /\ data' = [data EXCEPT ![c] = "empty"]
    /\ request' = [request EXCEPT ![c] = NoPayload]
    /\ response' = [response EXCEPT ![c] = <<>>]
    /\ weight' = [weight EXCEPT ![c] = 0]
    /\ window' = [window EXCEPT ![c] = {}]
    /\ UNCHANGED <<accvars, cfgvars, weight_table, total_weight, last_set, lock, out, slept,
                   callvars>>

(* ----------------------------- mutators -------------------------------- *)
\* set_weight(address, selection_id, balance_round, weight): key = f"...",
\* then the entry of `with self._lock:`
CallSetWeight ==
    /\ call_pc = "idle"
    /\ lock = Free
    /\ \E args \in SetWeightArgs :
          call_op' = [op |-> "set_weight",
                      args |-> <<args[1], args[2], args[3]>>,
                      key |-> CompositeKey(args[1], args[2], args[3]),
                      value |-> args[4]]
    /\ lock' = Harness
    /\ call_pc' = "write"
    /\ UNCHANGED <<accvars, cfgvars, weight_table, total_weight, last_set, connvars, window>>

\* set_total_weight(total_weight): the entry of `with self._lock:`
CallSetTotalWeight ==
    /\ call_pc = "idle"
    /\ lock = Free
    /\ \E v \in SetTotalArgs :
          call_op' = [op |-> "set_total_weight", args |-> <<>>, key |-> <<>>,
                      value |-> v]
    /\ lock' = Harness
    /\ call_pc' = "write"
    /\ UNCHANGED <<accvars, cfgvars, weight_table, total_weight, last_set, connvars, window>>

\* the table replaced by one that holds the new entry only
StoreAlone(table, key, value) == [x \in {key} |-> value]

\* self.weight_table[key] = weight
Store(table, key, value) ==
    [x \in DOMAIN table \cup {key} |-> IF x = key THEN value ELSE table[x]]

\* the assignment under the lock, then leaving the with block and returning
CallWrite ==
    /\ call_pc = "write"
    /\ IF call_op.op = "set_weight"
       THEN /\ weight_table' = Store(weight_table, call_op.key, call_op.value)
            /\ window' = [c \in Conns |->
                            IF pc[c] = "w_lock" /\ TripleKey(request[c]) = call_op.key
                            THEN window[c] \cup {<<call_op.value>>}
                            ELSE window[c]]
            /\ last_set' = [last_set EXCEPT !.weight = Store(@, call_op.args, call_op.value)]
            /\ UNCHANGED total_weight
       ELSE /\ total_weight' = call_op.value
            /\ window' = [c \in Conns |->
                            IF pc[c] = "tw_read"
                            THEN window[c] \cup {<<call_op.value>>}
                            ELSE window[c]]
            /\ last_set' = [last_set EXCEPT !.total = <<call_op.value>>]
            /\ UNCHANGED weight_table
    /\ lock' = Free
    /\ call_pc' = "idle"
    /\ call_op' = NoOp
    /\ UNCHANGED <<accvars, cfgvars, connvars>>

(* -------------------------- specification ------------------------------ *)
Next ==
    \/ Start
    \/ \E c \in Conns :
          \/ Accept(c)
          \/ Sleep(c)
          \/ Recv(c)
          \/ Process(c)
          \/ TotalWeightRead(c)
          \/ WeightLock(c)
          \/ WeightAddress(c)
          \/ WeightTable(c)
          \/ WeightUnlock(c)
          \/ Send(c)
          \/ Close(c)
    \/ CallSetWeight
    \/ CallSetTotalWeight
    \/ CallWrite

Spec == Init /\ [][Next]_vars

(* ------------------ the setters' calls in sequence ---------------------- *)
\* the same daemon under the harness that calls the setters with several
\* values, several triples and triples with ':' inside a field
InitTables == Constructed("tables")
SpecTables == InitTables /\ [][Next]_vars

(* ---------------- start() and stop(), statement by statement ----------- *)
\* self.server_socket = socket.socket(...)
StartSocket ==
    /\ a_pc = "new"
    /\ server_socket' = "open"
    /\ a_pc' = "bind"
    /\ UNCHANGED <<running, stop_pc, reported, cfgvars, weight_table, total_weight,
                   last_set, lock, connvars, callvars, window>>

\* setsockopt, bind, listen(10): on a socket that stop() has closed they raise
\* OSError, which leaves start()
StartListen ==
    /\ a_pc = "bind"
    /\ IF server_socket = "closed"
       THEN a_pc' = "failed" /\ UNCHANGED server_socket
       ELSE a_pc' = "run" /\ server_socket' = "listening"
    /\ UNCHANGED <<running, stop_pc, reported, cfgvars, weight_table, total_weight,
                   last_set, lock, connvars, callvars, window>>

\* self.running = True
StartRun ==
    /\ a_pc = "run"
    /\ running' = TRUE
    /\ a_pc' = "loop"
    /\ UNCHANGED <<server_socket, stop_pc, reported, cfgvars, weight_table,
                   total_weight, last_set, lock, connvars, callvars, window>>

\* while self.running:
LoopTest ==
    /\ a_pc = "loop"
    /\ a_pc' = IF running THEN "accept" ELSE "exited"
    /\ UNCHANGED <<running, server_socket, stop_pc, reported, cfgvars, weight_table,
                   total_weight, last_set, lock, connvars, callvars, window>>

\* settimeout(1.0), accept() returns connection c, and its handler thread is
\* started
AcceptConn(c) ==
    /\ a_pc = "accept" /\ server_socket = "listening"
    /\ pc[c] = "idle"
    /\ \A d \in Conns : d < c => pc[d] # "idle"
    /\ pc' = [pc EXCEPT ![c] = "sleep"]
    /\ a_pc' = "loop"
    /\ UNCHANGED <<running, server_socket, stop_pc, reported, cfgvars, weight_table,
                   total_weight, last_set, lock, data, request, response, weight, out,
                   closed, slept, callvars, window>>

\* except socket.timeout: continue
AcceptTimeout ==
    /\ a_pc = "accept" /\ server_socket = "listening"
    /\ a_pc' = "loop"
    /\ UNCHANGED <<running, server_socket, stop_pc, reported, cfgvars, weight_table,
                   total_weight, last_set, lock, connvars, callvars, window>>

\* except Exception as e: if self.running: print("Error accepting connection")
Report ==
    IF ~running THEN reported
    ELSE IF stop_pc = "done" THEN "after_stop"
    ELSE "yes"

\* settimeout or accept raises: always on a socket that stop() has closed,
\* and possibly on a listening one
AcceptError ==
    /\ a_pc = "accept"
    /\ reported' = Report
    /\ a_pc' = "loop"
    /\ UNCHANGED <<running, server_socket, stop_pc, cfgvars, weight_table,
                   total_weight, last_set, lock, connvars, callvars, window>>

\* accept() returns connection c and thread.start() raises: the exception is
\* caught by the same except clause and no handler runs for c
SpawnError(c) ==
    /\ a_pc = "accept" /\ server_socket = "listening"
    /\ pc[c] = "idle"
    /\ \A d \in Conns : d < c => pc[d] # "idle"
    /\ pc' = [pc EXCEPT ![c] = "unhandled"]
    /\ reported' = Report
    /\ a_pc' = "loop"
    /\ UNCHANGED <<running, server_socket, stop_pc, cfgvars, weight_table,
                   total_weight, last_set, lock, data, request, response, weight, out,
                   closed, slept, callvars, window>>

\* stop(), called from another thread once start() is under way:
\* self.running = False
StopFlag ==
    /\ stop_pc = "idle" /\ a_pc # "new"
    /\ running' = FALSE
    /\ stop_pc' = "flag"
    /\ UNCHANGED <<server_socket, a_pc, reported, cfgvars, weight_table,
                   total_weight, last_set, lock, connvars, callvars, window>>

\* a stop() that shuts the accepted connections down together with the
\* listening socket
StopCloseConnections ==
    /\ stop_pc = "flag"
    /\ server_socket' = IF server_socket = "none" THEN "none" ELSE "closed"
    /\ stop_pc' = "done"
    /\ closed' = [c \in Conns |-> closed[c] \/ pc[c] \notin {"idle", "unhandled"}]
    /\ pc' = [c \in Conns |-> IF pc[c] \in {"idle", "unhandled"} THEN pc[c] ELSE "done"]
    /\ UNCHANGED <<running, a_pc, reported, cfgvars, weight_table, total_weight,
                   last_set, lock, data, request, response, weight, out, slept,
                   callvars, window>>

\* if self.server_socket: self.server_socket.close()
StopClose ==
    /\ stop_pc = "flag"
    /\ server_socket' = IF server_socket = "none" THEN "none" ELSE "closed"
    /\ stop_pc' = "done"
    /\ UNCHANGED <<running, a_pc, reported, cfgvars, weight_table, total_weight,
                   last_set, lock, connvars, callvars, window>>

\* the thread running start()
Acceptor ==
    \/ StartSocket
    \/ StartListen
    \/ StartRun
    \/ LoopTest
    \/ AcceptTimeout
    \/ AcceptError
    \/ \E c \in Conns : AcceptConn(c) \/ SpawnError(c)

\* the thread calling stop()
Stopper == StopFlag \/ StopClose

\* the handler thread of connection c
Handler(c) ==
    \/ Sleep(c)
    \/ Recv(c)
    \/ Process(c)
    \/ TotalWeightRead(c)
    \/ WeightLock(c)
    \/ WeightAddress(c)
    \/ WeightTable(c)
    \/ WeightUnlock(c)
    \/ Send(c)
    \/ Close(c)

InitLife == Constructed("lifecycle")
NextLife == Acceptor \/ Stopper \/ \E c \in Conns : Handler(c)
SpecLife == InitLife /\ [][NextLife]_vars

\* the operating system schedules the thread of start() and the thread of
\* stop(), and accept returns after its timeout of one second at the latest
FairLife == SpecLife /\ WF_vars(Acceptor) /\ WF_vars(Stopper)

(* ------------------------------ claims --------------------------------- *)
\* a request has been decoded by handler c and its handling has ended: the
\* response, if one was formed, is about to be sent or has been sent
Handled(c) == pc[c] \in {"send", "close"} /\ request[c].kind # "none"
IsObject(c) == request[c].kind = "object"
IsWeight(c) == IsObject(c) /\ request[c].type = <<"weight">>
IsTotalWeight(c) == IsObject(c) /\ request[c].type = <<"total_weight">>
NonEmpty(f) == f # <<>> /\ f[1] # <<>>
Complete(c) ==
    /\ NonEmpty(request[c].address)
    /\ NonEmpty(request[c].selection_id)
    /\ NonEmpty(request[c].balance_round)
NoOverride == default_weight = <<>>
InAddressTable(c) ==
    request[c].address # <<>> /\ request[c].address[1] \in DOMAIN address_weights
Present(set) == {v \in set : v # <<>>}

\* C1: every total_weight response carries a value total_weight held while the
\* request was handled, and every weight response carries the override, the
\* address table's value, a value the composite-key entry held while the
\* request was handled, or the fallback when the entry was absent then
C1_ResponsesCarryStoredValues ==
    \A c \in Conns :
        Handled(c) /\ response[c] # <<>> =>
            /\ "total_weight" \in DOMAIN response[c][1] =>
                  \E v \in Present(window[c]) : response[c][1] = [total_weight |-> Str(v[1])]
            /\ "weight" \in DOMAIN response[c][1] =>
                  IF ~NoOverride
                  THEN response[c][1] = [weight |-> Str(default_weight[1])]
                  ELSE IF InAddressTable(c)
                  THEN response[c][1] =
                          [weight |-> Str(address_weights[request[c].address[1]])]
                  ELSE \/ \E v \in Present(window[c]) :
                             response[c][1] = [weight |-> Str(v[1])]
                       \/ /\ <<>> \in window[c]
                          /\ response[c][1] =
                                [weight |-> Str(SumOrd(request[c].address[1]) % Modulus)]

\* C1 witness: a total_weight request and a weight request have both been
\* answered after a concurrent set_total_weight and a concurrent set_weight
C1_Witness ==
    \E c, d \in Conns :
        /\ Handled(c) /\ IsTotalWeight(c) /\ Cardinality(window[c]) = 2
        /\ response[c] # <<>> /\ "total_weight" \in DOMAIN response[c][1]
        /\ Handled(d) /\ IsWeight(d) /\ Cardinality(window[d]) = 2
        /\ response[d] # <<>> /\ "weight" \in DOMAIN response[d][1]

\* C2: a thread that is about to read or write weight_table, address_weights
\* or total_weight holds the lock
C2_SharedAccessUnderLock ==
    /\ \A c \in Conns :
          pc[c] \in {"tw_read", "w_addr", "w_table"} => lock = ConnThread(c)
    /\ call_pc = "write" => lock = Harness

\* C3 as stated: with an override configured every weight request is answered
\* with the override, whatever its fields
C3_OverrideForEveryWeightRequest ==
    \A c \in Conns :
        Handled(c) /\ IsWeight(c) /\ ~NoOverride =>
            response[c] = <<[weight |-> Str(default_weight[1])]>>

\* C3 amended: with an override configured (0 included) every weight request
\* whose three fields are present and non-empty is answered with the override,
\* whatever the fields and the tables hold
C3_OverrideForCompleteWeightRequest ==
    \A c \in Conns :
        Handled(c) /\ IsWeight(c) /\ ~NoOverride /\ Complete(c) =>
            response[c] = <<[weight |-> Str(default_weight[1])]>>

\* C3 witness: an override of 0 has answered a request whose address is in the
\* address table and whose composite key is in weight_table
C3_Witness ==
    \E c \in Conns :
        /\ pc[c] = "close" /\ out[c] = 1 /\ IsWeight(c) /\ Complete(c)
        /\ default_weight = <<0>>
        /\ InAddressTable(c)
        /\ TripleKey(request[c]) \in DOMAIN weight_table
        /\ response[c] = <<[weight |-> <<Zero>>]>>

\* C4 as stated: without override, a weight request whose address is a key of
\* address_weights is answered with that value for every selection_id and
\* balance_round
C4_AddressTableForEveryRequest ==
    \A c \in Conns :
        Handled(c) /\ IsWeight(c) /\ NoOverride /\ InAddressTable(c) =>
            response[c] = <<[weight |-> Str(address_weights[request[c].address[1]])]>>

\* C4 amended: without override, a weight request whose three fields are
\* present and non-empty and whose address is a key of address_weights is
\* answered with that value, also when weight_table holds another value for
\* the same triple
C4_AddressTableForCompleteRequest ==
    \A c \in Conns :
        Handled(c) /\ IsWeight(c) /\ NoOverride /\ InAddressTable(c) /\ Complete(c) =>
            response[c] = <<[weight |-> Str(address_weights[request[c].address[1]])]>>

\* C4 witness: a request was answered from the address table while
\* weight_table holds a different value under its composite key
C4_Witness ==
    \E c \in Conns :
        /\ pc[c] = "close" /\ out[c] = 1 /\ IsWeight(c) /\ Complete(c) /\ NoOverride
        /\ InAddressTable(c)
        /\ TripleKey(request[c]) \in DOMAIN weight_table
        /\ weight_table[TripleKey(request[c])] # address_weights[request[c].address[1]]
        /\ response[c] = <<[weight |-> Str(address_weights[request[c].address[1]])]>>

\* C5 as stated: without override and with an address that is not a key of
\* address_weights, a weight request whose composite key is in weight_table
\* (all the time it is handled) is answered with a value stored under the key
C5_CompositeEntryForEveryRequest ==
    \A c \in Conns :
        Handled(c) /\ HasTriple(request[c]) /\ NoOverride /\ ~InAddressTable(c)
        /\ <<>> \notin window[c] =>
            \E v \in window[c] : response[c] = <<[weight |-> Str(v[1])]>>

\* C5 amended: the same for requests whose three fields are non-empty; and at
\* the lookup, under the lock, the weight read is the entry's current value
C5_CompositeEntryForCompleteRequest ==
    \A c \in Conns :
        /\ Handled(c) /\ HasTriple(request[c]) /\ NoOverride /\ ~InAddressTable(c)
           /\ Complete(c) /\ <<>> \notin window[c] =>
              \E v \in window[c] : response[c] = <<[weight |-> Str(v[1])]>>
        /\ pc[c] = "w_unlock" /\ TripleKey(request[c]) \in DOMAIN weight_table =>
              weight[c] = weight_table[TripleKey(request[c])]

\* C5 witness: a request was answered with the entry a set_weight call stored
\* under its composite key while it waited for the lock
C5_Witness ==
    \E c \in Conns :
        /\ pc[c] = "close" /\ out[c] = 1 /\ HasTriple(request[c]) /\ Complete(c)
        /\ NoOverride /\ ~InAddressTable(c)
        /\ window[c] = {<<6>>, <<7>>}
        /\ response[c] = <<[weight |-> <<Zero + 7>>]>>

\* no entry under the request's composite key all the time it is handled (a
\* request that lacks a field names no key)
NoCompositeEntry(c) == HasTriple(request[c]) => window[c] = {<<>>}

\* C6 as stated: a weight request that matches no override, no address-table
\* entry and no composite-key entry is answered with the sum of the code
\* points of its address modulo 1000000
C6_FallbackForEveryRequest ==
    \A c \in Conns :
        Handled(c) /\ IsWeight(c) /\ NoOverride /\ request[c].address # <<>>
        /\ ~InAddressTable(c) /\ NoCompositeEntry(c) =>
            response[c] = <<[weight |-> Str(SumOrd(request[c].address[1]) % Modulus)]>>

\* C6 amended: the same for requests whose three fields are non-empty; the
\* weight is in 0..999999, and two such requests with the same address get the
\* same response
C6_FallbackForCompleteRequest ==
    \A c \in Conns :
        Handled(c) /\ IsWeight(c) /\ NoOverride /\ Complete(c)
        /\ ~InAddressTable(c) /\ NoCompositeEntry(c) =>
            /\ response[c] = <<[weight |-> Str(SumOrd(request[c].address[1]) % Modulus)]>>
            /\ pc[c] = "close" => weight[c] \in 0..(Modulus - 1)
            /\ \A d \in Conns :
                  Handled(d) /\ IsWeight(d) /\ Complete(d) /\ NoCompositeEntry(d)
                  /\ request[d].address = request[c].address =>
                      response[d] = response[c]

\* C6 witness: two requests with the same address, whose code point exceeds
\* the modulus, and different selection ids were both answered 114111
C6_Witness ==
    \E c, d \in Conns :
        /\ pc[c] = "close" /\ pc[d] = "close" /\ NoOverride
        /\ request[c] = W(<<Top>>, <<SelX>>, <<Round5>>)
        /\ request[d] = W(<<Top>>, <<SelY>>, <<Round5>>)
        /\ window[c] = {<<>>} /\ window[d] = {<<>>}
        /\ response[c] = <<[weight |-> <<49, 49, 52, 49, 49, 49>>]>>
        /\ response[d] = response[c]

\* C7: a weight request with a missing or empty field is answered bad_request
\* naming the first of address, selection_id, balance_round that is missing; a
\* total_weight request likewise for balance_round, vote_round; no weight or
\* total_weight is returned
C7_MissingFieldIsBadRequest ==
    \A c \in Conns :
        /\ Handled(c) /\ IsWeight(c) /\ ~Complete(c) =>
              response[c] =
                 <<[error |->
                       IF ~NonEmpty(request[c].address) THEN "Missing address field"
                       ELSE IF ~NonEmpty(request[c].selection_id)
                       THEN "Missing selection_id field"
                       ELSE "Missing balance_round field",
                    code |-> "bad_request"]>>
        /\ Handled(c) /\ IsTotalWeight(c)
           /\ ~(NonEmpty(request[c].balance_round) /\ NonEmpty(request[c].vote_round)) =>
              response[c] =
                 <<[error |->
                       IF ~NonEmpty(request[c].balance_round)
                       THEN "Missing balance_round field"
                       ELSE "Missing vote_round field",
                    code |-> "bad_request"]>>

\* C7 witness: with an override configured, a weight request without any field
\* was answered "Missing address field", bad_request
C7_Witness ==
    \E c \in Conns :
        /\ pc[c] = "close" /\ out[c] = 1 /\ ~NoOverride
        /\ request[c] = W(<<>>, <<>>, <<>>)
        /\ response[c] = <<[error |-> "Missing address field", code |-> "bad_request"]>>

KnownTypes == {<<"ping">>, <<"identity">>, <<"weight">>, <<"total_weight">>}

\* C8: a decoded JSON object whose type is missing or not one of the four
\* known types is answered "Unknown request type: <type>", unsupported; the
\* four known types are never answered unsupported
C8_UnknownTypeIsUnsupported ==
    \A c \in Conns :
        Handled(c) /\ IsObject(c) =>
            IF request[c].type \in KnownTypes
            THEN response[c] # <<>> =>
                    ~("code" \in DOMAIN response[c][1] /\ response[c][1].code = "unsupported")
            ELSE response[c] =
                    <<[error |-> IF request[c].type = <<>>
                                 THEN "Unknown request type: "
                                 ELSE "Unknown request type: " \o request[c].type[1],
                       code |-> "unsupported"]>>

\* C8 witness: an object without a type field was answered unsupported
C8_Witness ==
    \E c \in Conns :
        /\ pc[c] = "close" /\ out[c] = 1 /\ IsObject(c) /\ request[c].type = <<>>
        /\ response[c] = <<[error |-> "Unknown request type: ", code |-> "unsupported"]>>

\* C9: a non-empty buffer that is not UTF-8 JSON (invalid JSON text, or bytes
\* that are not UTF-8) is answered bad_request before the connection is closed
C9_DecodeFailureIsBadRequest ==
    \A c \in Conns :
        pc[c] = "close" /\ request[c].kind \in {"bad_json", "bad_utf8"} =>
            /\ response[c] # <<>>
            /\ "code" \in DOMAIN response[c][1]
            /\ response[c][1].code = "bad_request"

\* C10: a buffer that decodes to JSON, an object or not, is answered: its
\* handler does not reach the close without having formed a response
C10_ProcessingErrorIsAnswered ==
    \A c \in Conns :
        pc[c] = "close" /\ request[c].kind \in {"object", "non_object"} =>
            response[c] # <<>>

\* C11: on every exit path of a connection handler the client socket is
\* closed: a handler that has terminated has closed its connection, a closed
\* connection stays closed, and after the one attempt to write the response,
\* failed or not, the handler's next step is the close (no retry)
C11_EveryExitClosesSocket ==
    /\ [](\A c \in Conns : pc[c] = "done" => closed[c])
    /\ [][\A c \in Conns :
            /\ (pc[c] = "send" /\ pc'[c] # "send") => pc'[c] = "close"
            /\ (pc[c] = "close" /\ pc'[c] # "close") => (pc'[c] = "done" /\ closed'[c])
            /\ out'[c] <= 1
            /\ closed[c] => closed'[c]]_vars
\* a handler has terminated without a response written (nothing received, a
\* failed read or a failed write), after the latency sleep
C11_Witness ==
    \E c \in Conns : pc[c] = "done" /\ closed[c] /\ out[c] = 0 /\ slept[c]

\* the positions of a handler whose read loop has ended
Framed == {"process", "tw_read", "w_lock", "w_addr", "w_table", "w_unlock",
           "send", "close", "done"}

\* C12: a handler processes one request only: at most one response is written
\* on a connection; it is written by the one send step, after the request
\* has been framed and a response formed and before the close; bytes are read
\* only by the read loop, and once the request is framed the handler never
\* returns to reading, whatever the client sent after the first '}'
C12_OneRequestPerConnection ==
    /\ [](\A c \in Conns :
            /\ out[c] <= 1
            /\ out[c] = 1 => pc[c] \in {"close", "done"}
            /\ closed[c] => pc[c] = "done")
    /\ [][\A c \in Conns :
            /\ out'[c] # out[c] =>
                  /\ pc[c] = "send" /\ out'[c] = out[c] + 1
                  /\ data[c] # "empty" /\ response[c] # <<>> /\ ~closed[c]
            /\ data'[c] # data[c] => (pc[c] = "recv" \/ pc'[c] = "done")
            /\ pc[c] \in Framed => pc'[c] \in Framed]_vars
\* a handler has terminated with its one response written
C12_Witness ==
    \E c \in Conns : pc[c] = "done" /\ out[c] = 1 /\ closed[c]

\* C13: once stop() has returned, the accept loop of start() eventually
\* exits (or start() has ended otherwise), and from then on no connection is
\* accepted, whatever the interleaving of stop() with start()
C13_StopEndsAcceptLoop ==
    /\ (stop_pc = "done") ~> (a_pc \in {"exited", "failed"})
    /\ [][stop_pc = "done" => \A c \in Conns : pc[c] = "idle" => pc'[c] = "idle"]_vars

\* a handler that is under way and not waiting for the lock
CanStep(c) ==
    /\ pc[c] \notin {"idle", "unhandled", "done"}
    /\ pc[c] = "w_lock" => lock = Free

\* C14: stop() affects only the acceptor: its steps change neither a
\* connection (position, buffer, request, response, socket), nor the weight
\* tables, the total weight, the configuration or the lock; and with stop()
\* under way or returned, the handler of every accepted connection can still
\* take its next step, and a connection is closed by its own handler only
C14_StopAffectsOnlyAcceptor ==
    /\ [][stop_pc' # stop_pc =>
            UNCHANGED <<connvars, weight_table, total_weight, cfgvars, lock>>]_vars
    /\ [](\A c \in Conns : (stop_pc # "idle" /\ CanStep(c)) => ENABLED Handler(c))
    /\ [][\A c \in Conns : closed'[c] # closed[c] => pc[c] = "close"]_vars
\* stop() has returned and the accept loop has ended while the handler of an
\* accepted connection has not read anything yet and another is about to send
C14_Witness ==
    /\ stop_pc = "done" /\ a_pc = "exited"
    /\ \E c, d \in Conns : pc[c] = "sleep" /\ pc[d] = "send"

\* the positions of a handler inside `with self._lock:`
InLookup == {"w_addr", "w_table", "w_unlock"}

\* C15: a handler holds the lock exactly while it is inside the table lookup
\* of a weight request, so never while sleeping, reading, processing another
\* request, writing or closing, and every path out of the lookup has
\* released it; whoever holds the lock can take its next step without
\* waiting for any client; and with no lookup and no setter under way the
\* lock is free, so a setter call and a waiting lookup can proceed, however
\* slow the other clients are
C15_LockHeldOnlyInLookup ==
    /\ \A c \in Conns : lock = ConnThread(c) <=> pc[c] \in InLookup
    /\ lock = Harness <=> call_pc = "write"
    /\ \A c \in Conns :
          lock = ConnThread(c) =>
              ENABLED (WeightAddress(c) \/ WeightTable(c) \/ WeightUnlock(c))
    /\ lock = Harness => ENABLED CallWrite
    /\ lock = Free =>
          /\ ENABLED CallSetWeight /\ ENABLED CallSetTotalWeight
          /\ \A c \in Conns : pc[c] = "w_lock" => ENABLED WeightLock(c)
\* the first client has sent bytes without '}' and its handler is reading,
\* while a later connection's weight request has been answered from the
\* table a set_weight call has written
C15_Witness ==
    \E c, d \in Conns :
        /\ pc[c] = "recv" /\ data[c] = "plain" /\ slept[c]
        /\ pc[d] = "send" /\ IsWeight(d) /\ response[d] = <<WeightResp(7)>>
        /\ lock = Free

\* C16: an error of accept or of starting a handler thread does not end the
\* accept loop while the running flag is true (the loop has exited only with
\* the flag false); and an accept error after stop() has returned is not
\* reported as a failure
C16_AcceptErrorsDoNotEndLoop ==
    /\ a_pc = "exited" => ~running
    /\ reported # "after_stop"

\* C17: the handler keeps reading while the peer has not closed and the
\* buffer holds no '}', and stops at the first of the two: it is in the read
\* loop only with a buffer without '}', it leaves the loop for the decoding
\* only with a '}' just received or at the peer's close with bytes received,
\* and it leaves it for the close (peer closed before any byte, or failed
\* read) with no response formed or written; with latency configured the
\* sleep has happened before any read
C17_ReadUntilCloseOrBrace ==
    /\ [](\A c \in Conns :
            /\ pc[c] = "recv" => data[c] # "brace"
            /\ pc[c] \in {"idle", "sleep"} => data[c] = "empty"
            /\ (latency > 0 /\ pc[c] \notin {"idle", "sleep", "unhandled"}) => slept[c]
            /\ (pc[c] = "close" /\ data[c] = "empty") =>
                  (out[c] = 0 /\ response[c] = <<>>))
    /\ [][\A c \in Conns :
            pc[c] = "recv" =>
              /\ pc'[c] \in {"recv", "process", "close"}
              /\ pc'[c] = "recv" => data'[c] \in {data[c], "plain"}
              /\ pc'[c] = "process" =>
                    \/ data'[c] = "brace"
                    \/ data'[c] = "plain" /\ data[c] = "plain"
              /\ pc'[c] = "close" =>
                    /\ data'[c] = data[c]
                    /\ out'[c] = 0 /\ response'[c] = <<>>]_vars
\* after the latency sleep one handler has left the read loop with a '}' in
\* its buffer, and another has terminated without a response
C17_Witness ==
    \E c, d \in Conns :
        /\ pc[c] = "process" /\ data[c] = "brace" /\ slept[c]
        /\ pc[d] = "done" /\ out[d] = 0 /\ closed[d]

\* C18: the configuration and the address weight table never change; the
\* composite-key table changes only by the write of a set_weight call, which
\* sets the entry under the key of its arguments, leaves every other entry
\* and the total weight as they were; the total weight changes only by the
\* write of a set_total_weight call, which leaves the table as it was; and
\* no step of a connection handler changes the table or the total weight
C18_SettersChangeOnlyTheirEntry ==
    [][/\ UNCHANGED <<default_weight, address_weights, latency>>
       /\ weight_table' # weight_table =>
             /\ call_pc = "write" /\ call_op.op = "set_weight"
             /\ LET key == CompositeKey(call_op.args[1], call_op.args[2], call_op.args[3])
                IN  /\ DOMAIN weight_table' = DOMAIN weight_table \cup {key}
                    /\ weight_table'[key] = call_op.value
                    /\ \A k \in DOMAIN weight_table \ {key} :
                          weight_table'[k] = weight_table[k]
             /\ total_weight' = total_weight
       /\ total_weight' # total_weight =>
             /\ call_pc = "write" /\ call_op.op = "set_total_weight"
             /\ total_weight' = call_op.value
             /\ weight_table' = weight_table
       /\ (pc' # pc \/ response' # response \/ out' # out) =>
             (weight_table' = weight_table /\ total_weight' = total_weight)]_vars
\* set_weight and set_total_weight have written, the other entries of the
\* table are the constructor's, and requests have been answered
C18_Witness ==
    /\ weight_table = Store(Store(KeyTable, CompositeKey(Top, SelY, Round5), 7),
                            CompositeKey(AddrXY, SelZ, Round1), 11)
    /\ total_weight = 42
    /\ address_weights = AddressTable
    /\ \A c \in Conns : pc[c] = "done"
    /\ out[1] = 1

\* the value of the most recent set_total_weight, or the constructor's
LastTotal == IF last_set.total = <<>> THEN DefaultTotalWeight ELSE last_set.total[1]

\* C19: with no override, a weight request for (a, s, b) whose address is
\* not in the address weight table gets, from the lookup, the weight of the
\* most recent set_weight(a, s, b, w) when there was one; a total_weight
\* request reads the value of the most recent set_total_weight, or the
\* constructor's; and a request whose address is in the address weight
\* table is answered from that table whatever set_weight has written
C19_LastWriteWins ==
    \A c \in Conns :
        /\ pc[c] = "w_unlock" =>
              LET t == <<request[c].address[1], request[c].selection_id[1],
                         request[c].balance_round[1]>>
              IN  t \in DOMAIN last_set.weight => weight[c] = last_set.weight[t]
        /\ pc[c] = "tw_read" => ReadTotalWeight = LastTotal
        /\ (Handled(c) /\ IsWeight(c) /\ Complete(c) /\ NoOverride /\ InAddressTable(c)) =>
              response[c] = <<WeightResp(address_weights[request[c].address[1]])>>

\* the triples of the requests and of the set_weight calls
Triples == {<<Top, SelY, Round5>>, <<A1, SelX, Round5>>,
            <<AddrXY, SelZ, Round1>>, <<AddrX, SelYZ, Round1>>}

\* C20: the write of set_weight(a, s, b, w) leaves the answer to a weight
\* request for every triple other than (a, s, b) as it was, fields with ':'
\* in them included
C20_SetWeightChangesOneTriple ==
    [][(call_pc = "write" /\ call_op.op = "set_weight" /\ call_pc' = "idle") =>
          \A t \in Triples :
              t # call_op.args =>
                  WeightAnswer(t[1], t[2], t[3])' = WeightAnswer(t[1], t[2], t[3])]_vars
====
